---------------------------- MODULE Spec2Model ----------------------------
(***************************************************************************)
(* A model of reader/handler.go: the remote-read handler Handle, the row   *)
(* grouper responseToTimeseries and the series key buildKey.               *)
(*                                                                         *)
(* Go strings are sequences of byte values (a label value "a,b" is         *)
(* <<97, 44, 98>>), so that sort.Strings and strings.Join act on the bytes *)
(* as the Go code does.  The names of a row's fields are TLA+ strings:     *)
(* the code only compares them with "value" and "timestamp".               *)
(* int64 values that do not fit TLC's integers are sign/magnitude numbers  *)
(* [neg, mag], mag a little-endian sequence of base-1000 digits.           *)
(***************************************************************************)
EXTENDS Integers, Sequences, FiniteSets, TLC

VARIABLES
    \* Handle: one request at a time
    pc,          \* the position of Handle in its body
    body,        \* the request: what each decoding step will find in it
    store,       \* what the store's Read will answer for the request
    w,           \* the http.ResponseWriter: status, payload kind, headers
    steps,       \* the steps Handle has run for the request, in order
    readCalls,   \* the number of reader.Read calls made for the request
    io,          \* whether proto.Marshal and w.Write will fail for the request
    \* buildKey applied to two rows
    rowA, rowB, keyA, keyB,
    \* responseToTimeseries: its argument, its local map, the slice it returns
    dataPoints, labelsToSeries, series,
    \* responseToTimeseries applied to a permutation of dataPoints
    perm, labelsToSeriesPerm

vars == <<pc, body, store, w, steps, readCalls, io,
          rowA, rowB, keyA, keyB,
          dataPoints, labelsToSeries, series, perm, labelsToSeriesPerm>>

handleVars == <<body, store, w, steps, readCalls, io>>
keyVars    == <<rowA, rowB, keyA, keyB>>
groupVars  == <<dataPoints, labelsToSeries, series>>
permVars   == <<perm, labelsToSeriesPerm>>

---------------------------------------------------------------------------
(* Bounds of the model *)

\* The longest row sequence handed to responseToTimeseries.
MaxRows == 2

\* The longest row sequence the store's Read answers inside Handle.
MaxStoreRows == 1

\* The largest number of queries in a deserialized Read Request.
MaxQueries == 2

---------------------------------------------------------------------------
(* Byte strings *)

\* The separator of strings.Join(keys[:], ",")
Comma == 44

Str_a    == <<97>>
Str_b    == <<98>>
Str_a_b  == <<97, 44, 98>>          \* "a,b"

\* "2024-01-01T00:00:00Z"
TS_2024_0000 == <<50, 48, 50, 52, 45, 48, 49, 45, 48, 49, 84, 48, 48, 58, 48, 48, 58, 48, 48, 90>>
\* "garbage"
TS_Garbage == <<103, 97, 114, 98, 97, 103, 101>>

\* Go's string comparison a < b: bytewise, a proper prefix is smaller.
RECURSIVE StrLess(_, _)
StrLess(a, b) ==
    IF b = <<>> THEN FALSE
    ELSE IF a = <<>> THEN TRUE
    ELSE IF Head(a) < Head(b) THEN TRUE
    ELSE IF Head(a) > Head(b) THEN FALSE
    ELSE StrLess(Tail(a), Tail(b))

\* One insertion of sort.Strings: x put before the first element greater than it.
RECURSIVE InsertSorted(_, _)
InsertSorted(x, s) ==
    IF s = <<>> THEN <<x>>
    ELSE IF StrLess(x, Head(s)) THEN <<x>> \o s
    ELSE <<Head(s)>> \o InsertSorted(x, Tail(s))

\* sort.Strings(keys): the strings of keys in increasing order.
RECURSIVE SortStrings(_)
SortStrings(keys) ==
    IF keys = <<>> THEN <<>>
    ELSE InsertSorted(Head(keys), SortStrings(Tail(keys)))

\* strings.Join(elems, ","): the elements with one separator between neighbours.
RECURSIVE Join(_)
Join(elems) ==
    IF elems = <<>> THEN <<>>
    ELSE IF Len(elems) = 1 THEN elems[1]
    ELSE elems[1] \o <<Comma>> \o Join(Tail(elems))

---------------------------------------------------------------------------
(* Rows and buildKey *)

\* The fields of a row that are labels: `k != "value" && k != "timestamp"`.
LabelNames(datapoint) ==
    {k \in DOMAIN datapoint : k /= "value" /\ k /= "timestamp"}

\* One order in which `range datapoint` may visit the fields of a set.
RECURSIVE RangeOrder(_)
RangeOrder(S) ==
    IF S = {} THEN <<>>
    ELSE LET k == CHOOSE x \in S : TRUE IN <<k>> \o RangeOrder(S \ {k})

\* A faulty variant of buildKey: line 140, the sort, left out.
buildKeyUnsorted(datapoint) ==
    LET names == RangeOrder(LabelNames(datapoint))
        keys  == [i \in 1..Len(names) |-> datapoint[names[i]]]
    IN Join(keys)

\* buildKey: the label values, sorted, joined by ",".  The order in which the
\* map is ranged over does not reach the result: the values are sorted.
buildKey(datapoint) ==
    LET names == RangeOrder(LabelNames(datapoint))
        keys  == [i \in 1..Len(names) |-> datapoint[names[i]]]
    IN Join(SortStrings(keys))

---------------------------------------------------------------------------
(* int64 arithmetic on sign/magnitude numbers *)

RECURSIVE MagOfNat(_)
MagOfNat(n) == IF n = 0 THEN <<>> ELSE <<n % 1000>> \o MagOfNat(n \div 1000)

RECURSIVE Norm(_)
Norm(m) ==
    IF m /= <<>> /\ m[Len(m)] = 0 THEN Norm(SubSeq(m, 1, Len(m) - 1)) ELSE m

DigitAt(m, i) == IF i <= Len(m) THEN m[i] ELSE 0

\* m * k + c, for a small factor k
RECURSIVE MagMulSmall(_, _, _)
MagMulSmall(m, k, c) ==
    IF m = <<>> THEN MagOfNat(c)
    ELSE LET p == Head(m) * k + c
         IN <<p % 1000>> \o MagMulSmall(Tail(m), k, p \div 1000)

\* a + b + c
RECURSIVE MagAdd(_, _, _)
MagAdd(a, b, c) ==
    IF a = <<>> /\ b = <<>> THEN MagOfNat(c)
    ELSE LET x == DigitAt(a, 1) + DigitAt(b, 1) + c
         IN <<x % 1000>> \o MagAdd(IF a = <<>> THEN a ELSE Tail(a),
                                   IF b = <<>> THEN b ELSE Tail(b), x \div 1000)

\* a < b, both normalised
RECURSIVE MagLessFrom(_, _, _)
MagLessFrom(a, b, i) ==
    IF i = 0 THEN FALSE
    ELSE IF a[i] /= b[i] THEN a[i] < b[i]
    ELSE MagLessFrom(a, b, i - 1)

MagLess(a, b) ==
    IF Len(a) /= Len(b) THEN Len(a) < Len(b) ELSE MagLessFrom(a, b, Len(a))

\* a - b - borrow, for a >= b; not normalised
RECURSIVE MagSubRaw(_, _, _)
MagSubRaw(a, b, borrow) ==
    IF a = <<>> THEN <<>>
    ELSE LET x == Head(a) - DigitAt(b, 1) - borrow
         IN <<(x + 1000) % 1000>> \o
            MagSubRaw(Tail(a), IF b = <<>> THEN b ELSE Tail(b),
                      IF x < 0 THEN 1 ELSE 0)

MagSub(a, b) == Norm(MagSubRaw(a, b, 0))

Num(neg, mag) == [neg |-> neg /\ mag /= <<>>, mag |-> mag]

NumNeg(x) == Num(~x.neg, x.mag)

NumAdd(x, y) ==
    IF x.neg = y.neg THEN Num(x.neg, MagAdd(x.mag, y.mag, 0))
    ELSE IF MagLess(x.mag, y.mag) THEN Num(y.neg, MagSub(y.mag, x.mag))
    ELSE Num(x.neg, MagSub(x.mag, y.mag))

NumLess(x, y) ==
    IF x.neg /= y.neg THEN x.neg
    ELSE IF x.neg THEN MagLess(y.mag, x.mag)
    ELSE MagLess(x.mag, y.mag)

\* 2^63 = 9,223,372,036,854,775,808 and 2^64 = 18,446,744,073,709,551,616
Two63 == Num(FALSE, <<808, 775, 854, 36, 372, 223, 9>>)
Two64 == Num(FALSE, <<616, 551, 709, 73, 744, 446, 18>>)

\* The int64 that Go's wrapping arithmetic leaves for the exact result x.
RECURSIVE WrapInt64(_)
WrapInt64(x) ==
    IF NumLess(x, NumNeg(Two63)) THEN WrapInt64(NumAdd(x, Two64))
    ELSE IF ~NumLess(x, Two63) THEN WrapInt64(NumAdd(x, NumNeg(Two64)))
    ELSE x

\* x * 1e9 in int64 (the digits shift by three places), wrapping
MulBillion(x) ==
    WrapInt64(Num(x.neg, IF x.mag = <<>> THEN <<>> ELSE <<0, 0, 0>> \o x.mag))

\* x / int64(time.Millisecond): Go's division truncates toward zero
DivMillisecond(x) ==
    Num(x.neg, IF Len(x.mag) <= 2 THEN <<>> ELSE SubSeq(x.mag, 3, Len(x.mag)))

---------------------------------------------------------------------------
(* time.Parse(time.RFC3339, s), Time.UTC() and Time.UnixNano() *)

IsDigit(c) == c >= 48 /\ c <= 57

DigitsAt(s, i, n) == \A j \in i..(i + n - 1) : IsDigit(s[j])

RECURSIVE Atoi(_, _, _)
Atoi(s, i, n) ==
    IF n = 0 THEN 0 ELSE Atoi(s, i, n - 1) * 10 + (s[i + n - 1] - 48)

IsLeap(year) == year % 4 = 0 /\ (year % 100 /= 0 \/ year % 400 = 0)

DaysIn(month, year) ==
    IF month = 2 THEN (IF IsLeap(year) THEN 29 ELSE 28)
    ELSE IF month \in {4, 6, 9, 11} THEN 30 ELSE 31

\* The zero Time, which time.Parse returns with an error: January 1, year 1, UTC.
ZeroTime == [year |-> 1, month |-> 1, day |-> 1, hour |-> 0, min |-> 0, sec |-> 0]

\* The layout "2006-01-02T15:04:05Z07:00" on strings in the UTC ("Z") form
\* without fractional seconds: the forms the model's inputs are drawn from.
\* A string that is not of the layout, or names no calendar time, is an error.
ParseRFC3339(s) ==
    IF /\ Len(s) = 20
       /\ DigitsAt(s, 1, 4) /\ s[5] = 45
       /\ DigitsAt(s, 6, 2) /\ s[8] = 45
       /\ DigitsAt(s, 9, 2) /\ s[11] = 84
       /\ DigitsAt(s, 12, 2) /\ s[14] = 58
       /\ DigitsAt(s, 15, 2) /\ s[17] = 58
       /\ DigitsAt(s, 18, 2) /\ s[20] = 90
    THEN LET t == [year |-> Atoi(s, 1, 4), month |-> Atoi(s, 6, 2),
                   day |-> Atoi(s, 9, 2), hour |-> Atoi(s, 12, 2),
                   min |-> Atoi(s, 15, 2), sec |-> Atoi(s, 18, 2)]
         IN IF /\ t.month \in 1..12
               /\ t.day >= 1 /\ t.day <= DaysIn(t.month, t.year)
               /\ t.hour < 24 /\ t.min < 60 /\ t.sec < 60
            THEN [t |-> t, err |-> FALSE]
            ELSE [t |-> ZeroTime, err |-> TRUE]
    ELSE [t |-> ZeroTime, err |-> TRUE]

RECURSIVE DaysBeforeMonth(_, _)
DaysBeforeMonth(month, year) ==
    IF month = 1 THEN 0
    ELSE DaysBeforeMonth(month - 1, year) + DaysIn(month - 1, year)

\* Days from January 1 of year 0 to the day of t (year 0 is a leap year).
DaysSinceYear0(t) ==
    365 * t.year + (t.year + 3) \div 4 - (t.year + 99) \div 100
        + (t.year + 399) \div 400
        + DaysBeforeMonth(t.month, t.year) + (t.day - 1)

\* Seconds from January 1 of year 0 to January 1, 1970: 719528 days.
UnixEpochSeconds == Num(FALSE, <<200, 219, 167, 62>>)

\* t.Unix(): seconds since January 1, 1970 UTC
UnixSec(t) ==
    NumAdd(Num(FALSE, MagMulSmall(MagOfNat(DaysSinceYear0(t)), 86400,
                                  t.hour * 3600 + t.min * 60 + t.sec)),
           NumNeg(UnixEpochSeconds))

\* t.UnixNano(): t.unixSec()*1e9 + nsec in int64; it overflows for a time
\* before the year 1678 or after 2262, and Go's overflow wraps.
UnixNano(t) == MulBillion(UnixSec(t))

\* Lines 113-114: the parse error is dropped, the time that Parse returned is
\* converted to milliseconds.
timeInMillis(timestamp) ==
    DivMillisecond(UnixNano(ParseRFC3339(timestamp).t))

---------------------------------------------------------------------------
(* responseToTimeseries *)

\* Lines 96-103: the label pairs of a new series, one per non-reserved field.
\* The slice is filled in the order of the map's iteration, which Go leaves
\* unspecified; the model keeps the pairs as a set.
labelPairs(datapoint) ==
    {[Name |-> k, Value |-> datapoint[k]] : k \in LabelNames(datapoint)}

\* Lines 113-119: the sample of a row.
Sample(datapoint) ==
    [Timestamp |-> timeInMillis(datapoint["timestamp"]),
     Value |-> datapoint["value"]]

\* A faulty variant of GroupStep: a new series is made and stored for every
\* row, also for a key the map holds.
GroupStepAlwaysNew(m, datapoint) ==
    LET key == buildKey(datapoint)
        ts  == [Labels |-> labelPairs(datapoint),
                Samples |-> <<Sample(datapoint)>>]
    IN [k \in DOMAIN m \cup {key} |-> IF k = key THEN ts ELSE m[k]]

\* Lines 89-121: the body of the loop for one row, on the map m.
GroupStep(m, datapoint) ==
    LET key == buildKey(datapoint)
        ok  == key \in DOMAIN m
        ts  == IF ok THEN m[key]
               ELSE [Labels |-> labelPairs(datapoint), Samples |-> <<>>]
        ts2 == [ts EXCEPT !.Samples = Append(@, Sample(datapoint))]
    IN [k \in DOMAIN m \cup {key} |-> IF k = key THEN ts2 ELSE m[k]]

\* Lines 87-121: the map after the loop over dataPoints[i..].
RECURSIVE GroupLoop(_, _, _)
GroupLoop(rows, i, m) ==
    IF i > Len(rows) THEN m
    ELSE GroupLoop(rows, i + 1, GroupStep(m, rows[i]))

GroupRows(rows) == GroupLoop(rows, 1, <<>>)

\* All orders of a finite set, as sequences.
RECURSIVE Orders(_)
Orders(S) ==
    IF S = {} THEN {<<>>}
    ELSE UNION {{<<x>> \o o : o \in Orders(S \ {x})} : x \in S}

\* Lines 123-129: the slices `range labelsToSeries` can fill: the series of
\* the map, once each, in any order.
RespSlices(m) == {[i \in 1..Len(o) |-> m[o[i]]] : o \in Orders(DOMAIN m)}

---------------------------------------------------------------------------
(* Inputs *)

LabelNameSet  == {"host", "node"}
LabelValueSet == {Str_a, Str_b}
\* The label values buildKey is tried on: also "a,b"
KeyValueSet   == {Str_a, Str_b, Str_a_b}
SampleValues  == {1, 2}
Timestamps    == {TS_2024_0000, TS_Garbage}

\* A row: `value`, `timestamp` and a string for each label it carries.
Row(labels, value, timestamp) ==
    [k \in DOMAIN labels \cup {"value", "timestamp"} |->
        IF k = "value" THEN value
        ELSE IF k = "timestamp" THEN timestamp ELSE labels[k]]

RowsOver(values, samples, stamps) ==
    UNION {{Row(labels, v, t) : labels \in [L -> values], v \in samples, t \in stamps} :
           L \in SUBSET LabelNameSet}

Rows == RowsOver(LabelValueSet, SampleValues, Timestamps)

KeyRows == RowsOver(KeyValueSet, {1}, {TS_2024_0000})

RowSeqs(n) == UNION {[1..k -> Rows] : k \in 0..n}

Permute(rows, p) == [i \in 1..Len(rows) |-> rows[p[i]]]

PermutationsOf(n) == {p \in [1..n -> 1..n] : \A i, j \in 1..n : p[i] = p[j] => i = j}

---------------------------------------------------------------------------
(* Handle *)

StatusBadRequest          == 400
StatusInternalServerError == 500
StatusOK                  == 200

OneQueryMessage == "Can only handle one query."

\* The request bodies: one that cannot be read, one that is not snappy, one
\* that is snappy but no Read Request, and Read Requests of 0..MaxQueries
\* queries.
Bodies ==
    {[kind |-> k, queries |-> 0] : k \in {"unreadable", "notSnappy", "notProto"}}
    \cup {[kind |-> "request", queries |-> n] : n \in 0..MaxQueries}

\* What reader.Read answers: an error, or rows.
Stores ==
    {[err |-> TRUE, rows |-> <<>>]}
    \cup {[err |-> FALSE, rows |-> r] : r \in RowSeqs(MaxStoreRows)}

IOs == [marshalErr : BOOLEAN, writeErr : BOOLEAN]

NoResponse == [status |-> 0, payload |-> "", headers |-> {}]

\* Header.Set: the value of name replaced
SetHeader(h, name, value) == {x \in h : x[1] /= name} \cup {<<name, value>>}

\* http.Error(w, error, code): plain-text headers, the status and the text.
\* A status already sent stays, as does what was sent with it.
httpError(resp, error, code) ==
    [status  |-> IF resp.status = 0 THEN code ELSE resp.status,
     payload |-> IF resp.status = 0 THEN error ELSE resp.payload,
     headers |-> SetHeader(SetHeader(resp.headers,
                     "Content-Type", "text/plain; charset=utf-8"),
                     "X-Content-Type-Options", "nosniff")]

\* The steps of Handle, in the order of its body.
StepOrder == <<"ReadAll", "Decode", "Unmarshal", "Validate",
               "Read", "Group", "Marshal", "Write">>

\* Handle returns: pc is "done"; or it panics: pc is "panic".
Return(resp) ==
    /\ pc' = "done"
    /\ w' = resp

Goto(step) ==
    /\ pc' = step
    /\ w' = w

\* Lines 23-28
HandleReadAll ==
    /\ pc = "ReadAll"
    /\ steps' = Append(steps, "ReadAll")
    /\ IF body.kind = "unreadable"
       THEN Return(httpError(w, "read body error", StatusBadRequest))
       ELSE Goto("Decode")
    /\ UNCHANGED <<body, store, io, readCalls, keyVars, groupVars, permVars>>

\* A faulty variant of HandleDecode: the return of line 34 left out.
HandleDecodeNoReturn ==
    /\ pc = "Decode"
    /\ steps' = Append(steps, "Decode")
    /\ pc' = "Unmarshal"
    /\ w' = IF body.kind = "notSnappy"
            THEN httpError(w, "snappy error", StatusBadRequest) ELSE w
    /\ UNCHANGED <<body, store, io, readCalls, keyVars, groupVars, permVars>>

\* Lines 30-35
HandleDecode ==
    /\ pc = "Decode"
    /\ steps' = Append(steps, "Decode")
    /\ IF body.kind = "notSnappy"
       THEN Return(httpError(w, "snappy error", StatusBadRequest))
       ELSE Goto("Unmarshal")
    /\ UNCHANGED <<body, store, io, readCalls, keyVars, groupVars, permVars>>

\* Lines 39-44.  When Unmarshal fails, with err1, the branch evaluates
\* err.Error() on err, the error of snappy.Decode, which is nil here: the
\* call panics before http.Error is entered, and nothing is written to w.
HandleUnmarshal ==
    /\ pc = "Unmarshal"
    /\ steps' = Append(steps, "Unmarshal")
    /\ IF body.kind = "notProto"
       THEN pc' = "panic" /\ w' = w
       ELSE Goto("Validate")
    /\ UNCHANGED <<body, store, io, readCalls, keyVars, groupVars, permVars>>

\* A faulty variant of UnsupportedQueries: `> 1` for `!= 1`.
UnsupportedQueriesMany(n) == n > 1

\* Line 46: len(req.Queries) != 1
UnsupportedQueries(n) == n /= 1

\* Lines 46-50
HandleValidate ==
    /\ pc = "Validate"
    /\ steps' = Append(steps, "Validate")
    /\ IF UnsupportedQueries(body.queries)
       THEN Return(httpError(w, OneQueryMessage, StatusBadRequest))
       ELSE Goto("Read")
    /\ UNCHANGED <<body, store, io, readCalls, keyVars, groupVars, permVars>>

\* A faulty variant of HandleRead: the error of Read is ignored.
HandleReadIgnoreErr ==
    /\ pc = "Read"
    /\ steps' = Append(steps, "Read")
    /\ readCalls' = readCalls + 1
    /\ dataPoints' = store.rows
    /\ Goto("Group")
    /\ UNCHANGED <<body, store, io, keyVars, labelsToSeries, series, permVars>>

\* A faulty variant of HandleRead: a failed Read is tried once more.
HandleReadRetry ==
    /\ pc = "Read"
    /\ steps' = Append(steps, "Read")
    /\ readCalls' = readCalls + 1
    /\ IF store.err /\ readCalls = 0
       THEN Goto("Read") /\ dataPoints' = dataPoints
       ELSE IF store.err
       THEN /\ Return(httpError(w, "read error", StatusInternalServerError))
            /\ dataPoints' = dataPoints
       ELSE Goto("Group") /\ dataPoints' = store.rows
    /\ UNCHANGED <<body, store, io, keyVars, labelsToSeries, series, permVars>>

\* Lines 52-59
HandleRead ==
    /\ pc = "Read"
    /\ steps' = Append(steps, "Read")
    /\ readCalls' = readCalls + 1
    /\ IF store.err
       THEN /\ Return(httpError(w, "read error", StatusInternalServerError))
            /\ dataPoints' = dataPoints
       ELSE Goto("Group") /\ dataPoints' = store.rows
    /\ UNCHANGED <<body, store, io, keyVars, labelsToSeries, series, permVars>>

\* Lines 86-130: the map built from dataPoints and the slice returned.
responseToTimeseries ==
    /\ labelsToSeries' = GroupRows(dataPoints)
    /\ series' \in RespSlices(labelsToSeries')

\* Lines 61-67
HandleGroup ==
    /\ pc = "Group"
    /\ steps' = Append(steps, "Group")
    /\ responseToTimeseries
    /\ Goto("Marshal")
    /\ UNCHANGED <<body, store, io, readCalls, keyVars, dataPoints, permVars>>

\* Lines 68-76
HandleMarshal ==
    /\ pc = "Marshal"
    /\ steps' = Append(steps, "Marshal")
    /\ IF io.marshalErr
       THEN Return(httpError(w, "marshal error", StatusInternalServerError))
       ELSE /\ pc' = "Write"
            /\ w' = [w EXCEPT !.headers =
                       SetHeader(SetHeader(@, "Content-Type", "application/x-protobuf"),
                                 "Content-Encoding", "snappy")]
    /\ UNCHANGED <<body, store, io, readCalls, keyVars, groupVars, permVars>>

\* Lines 78-82.  A Write that fails may or may not have sent the status line.
HandleWrite ==
    /\ pc = "Write"
    /\ steps' = Append(steps, "Write")
    /\ IF io.writeErr
       THEN \E sent \in BOOLEAN :
              Return(httpError([w EXCEPT !.status = IF sent THEN StatusOK ELSE 0],
                               "write error", StatusInternalServerError))
       ELSE Return([w EXCEPT !.status = StatusOK, !.payload = "ReadResponse"])
    /\ UNCHANGED <<body, store, io, readCalls, keyVars, groupVars, permVars>>

IdleKey   == rowA = <<>> /\ rowB = <<>> /\ keyA = <<>> /\ keyB = <<>>
IdleGroup == dataPoints = <<>> /\ labelsToSeries = <<>> /\ series = <<>>
IdlePerm  == perm = <<>> /\ labelsToSeriesPerm = <<>>
IdleHandle ==
    /\ body = [kind |-> "unreadable", queries |-> 0]
    /\ store = [err |-> TRUE, rows |-> <<>>]
    /\ io = [marshalErr |-> FALSE, writeErr |-> FALSE]
    /\ w = NoResponse /\ steps = <<>> /\ readCalls = 0

\* Handle is entered with a request; the store and the transport will answer
\* as store and io say.
Init ==
    /\ pc = "ReadAll"
    /\ body \in Bodies
    /\ store \in Stores
    /\ io \in IOs
    /\ w = NoResponse
    /\ steps = <<>>
    /\ readCalls = 0
    /\ IdleKey /\ IdleGroup /\ IdlePerm

Next ==
    \/ HandleReadAll
    \/ HandleDecode
    \/ HandleUnmarshal
    \/ HandleValidate
    \/ HandleRead
    \/ HandleGroup
    \/ HandleMarshal
    \/ HandleWrite

Spec == Init /\ [][Next]_vars

---------------------------------------------------------------------------
(* buildKey on two rows *)

InitKey ==
    /\ pc = "buildKey"
    /\ rowA \in KeyRows
    /\ rowB \in KeyRows
    /\ keyA = <<>> /\ keyB = <<>>
    /\ IdleHandle /\ IdleGroup /\ IdlePerm

ApplyBuildKey ==
    /\ pc = "buildKey"
    /\ pc' = "keyed"
    /\ keyA' = buildKey(rowA)
    /\ keyB' = buildKey(rowB)
    /\ UNCHANGED <<rowA, rowB, handleVars, groupVars, permVars>>

NextKey == ApplyBuildKey

SpecKey == InitKey /\ [][NextKey]_vars

---------------------------------------------------------------------------
(* responseToTimeseries on a row sequence *)

InitGroup ==
    /\ pc = "group"
    /\ dataPoints \in RowSeqs(MaxRows)
    /\ labelsToSeries = <<>> /\ series = <<>>
    /\ IdleHandle /\ IdleKey /\ IdlePerm

ApplyGroup ==
    /\ pc = "group"
    /\ pc' = "grouped"
    /\ responseToTimeseries
    /\ UNCHANGED <<dataPoints, handleVars, keyVars, permVars>>

NextGroup == ApplyGroup

SpecGroup == InitGroup /\ [][NextGroup]_vars

---------------------------------------------------------------------------
(* responseToTimeseries on a row sequence and on a permutation of it *)

InitPerm ==
    /\ pc = "group"
    /\ dataPoints \in RowSeqs(MaxRows)
    /\ perm \in PermutationsOf(Len(dataPoints))
    /\ labelsToSeries = <<>> /\ series = <<>> /\ labelsToSeriesPerm = <<>>
    /\ IdleHandle /\ IdleKey

ApplyGroupBoth ==
    /\ pc = "group"
    /\ pc' = "grouped"
    /\ responseToTimeseries
    /\ labelsToSeriesPerm' = GroupRows(Permute(dataPoints, perm))
    /\ UNCHANGED <<dataPoints, perm, handleVars, keyVars>>

NextPerm == ApplyGroupBoth

SpecPerm == InitPerm /\ [][NextPerm]_vars

---------------------------------------------------------------------------
(* Properties of Handle, checked under Spec *)

InSteps(step) == \E i \in DOMAIN steps : steps[i] = step

IsPrefix(s, t) == Len(s) <= Len(t) /\ \A i \in 1..Len(s) : s[i] = t[i]

SuccessHeaders ==
    {<<"Content-Type", "application/x-protobuf">>, <<"Content-Encoding", "snappy">>}

\* C1: a request that deserializes into a Read Request with a number of
\* queries other than 1 is answered 400 with "Can only handle one query.",
\* Handle goes no further than the one-query check, and Read is never called.
C1_WrongQueryCountRejected ==
    (body.kind = "request" /\ body.queries /= 1) =>
        /\ readCalls = 0
        /\ ~InSteps("Read")
        /\ pc \in {"ReadAll", "Decode", "Unmarshal", "Validate", "done"}
        /\ pc = "done" =>
              /\ w.status = StatusBadRequest
              /\ w.payload = OneQueryMessage
              /\ steps = SubSeq(StepOrder, 1, 4)

C1_Witness ==
    /\ pc = "done"
    /\ body.kind = "request" /\ body.queries = 2
    /\ w.status = StatusBadRequest /\ w.payload = OneQueryMessage

\* C2: a request whose body decompresses but does not deserialize is
\* answered 400 with an error text, Handle returns (it does not abort), and
\* Read is never called.
C2_DeserializeFailureAnswered ==
    body.kind = "notProto" =>
        /\ readCalls = 0
        /\ pc /= "panic"
        /\ pc \in {"ReadAll", "Decode", "Unmarshal", "done"}
        /\ pc = "done" => w.status = StatusBadRequest /\ w.payload /= ""

\* C3: a request whose body fails decompression is answered 400 with the
\* error text; deserialization, the one-query check and Read are not run.
C3_DecompressFailureRejected ==
    body.kind = "notSnappy" =>
        /\ readCalls = 0
        /\ IsPrefix(steps, <<"ReadAll", "Decode">>)
        /\ pc \in {"ReadAll", "Decode", "done"}
        /\ pc = "done" =>
              /\ w.status = StatusBadRequest
              /\ w.payload = "snappy error"

C3_Witness ==
    /\ pc = "done"
    /\ body.kind = "notSnappy"
    /\ steps = <<"ReadAll", "Decode">>
    /\ w.status = StatusBadRequest

\* C4: when Read fails for a valid single-query request, the answer is 500
\* with the error text: grouping and encoding are not run, no protocol
\* message is written and the headers of a success response are not set.
C4_StoreErrorIs500 ==
    (body.kind = "request" /\ body.queries = 1 /\ store.err) =>
        /\ ~InSteps("Group") /\ ~InSteps("Marshal") /\ ~InSteps("Write")
        /\ w.headers \cap SuccessHeaders = {}
        /\ w.payload /= "ReadResponse"
        /\ labelsToSeries = <<>> /\ series = <<>>
        /\ pc \in {"ReadAll", "Decode", "Unmarshal", "Validate", "Read", "done"}
        /\ pc = "done" =>
              /\ w.status = StatusInternalServerError
              /\ w.payload = "read error"
              /\ readCalls = 1

C4_Witness ==
    /\ pc = "done"
    /\ body.kind = "request" /\ body.queries = 1 /\ store.err
    /\ readCalls = 1
    /\ w.status = StatusInternalServerError

\* The step at which the request fails, as a place in StepOrder; 9 when no
\* step fails.
FailingStep ==
    IF body.kind = "unreadable" THEN 1
    ELSE IF body.kind = "notSnappy" THEN 2
    ELSE IF body.kind = "notProto" THEN 3
    ELSE IF body.queries /= 1 THEN 4
    ELSE IF store.err THEN 5
    ELSE IF io.marshalErr THEN 7
    ELSE IF io.writeErr THEN 8
    ELSE Len(StepOrder) + 1

\* C10: the steps of Handle run in the order of StepOrder, each at most once;
\* Read is called at most once and only after decompression, deserialization
\* and the one-query check succeeded; no step runs after the first one that
\* fails; and a success response (status 200, the protocol message, its
\* headers) is there only when every step succeeded.
C10_LinearPipeline ==
    /\ IsPrefix(steps, StepOrder)
    /\ readCalls <= 1
    /\ readCalls = (IF InSteps("Read") THEN 1 ELSE 0)
    /\ readCalls = 1 =>
          /\ body.kind = "request" /\ body.queries = 1
          /\ IsPrefix(SubSeq(StepOrder, 1, 4), steps)
    /\ Len(steps) <= FailingStep
    /\ (pc \in {"done", "panic"} /\ FailingStep <= Len(StepOrder)) =>
          Len(steps) = FailingStep
    /\ (w.status = StatusOK /\ w.payload = "ReadResponse") =>
          /\ FailingStep = Len(StepOrder) + 1
          /\ steps = StepOrder
          /\ SuccessHeaders \subseteq w.headers
          /\ pc = "done"

C10_Witness ==
    /\ pc = "done"
    /\ steps = StepOrder
    /\ readCalls = 1
    /\ w.status = StatusOK /\ w.payload = "ReadResponse"
    /\ Len(dataPoints) = 1 /\ Len(series) = 1

---------------------------------------------------------------------------
(* Properties of buildKey, checked under SpecKey *)

\* The set of a row's label values.
LabelValues(r) == {r[k] : k \in LabelNames(r)}

\* The two rows carry the same label values, each as often: some one-to-one
\* map of the labels of r1 onto those of r2 keeps every value.
SameLabelValues(r1, r2) ==
    \E f \in [LabelNames(r1) -> LabelNames(r2)] :
        /\ \A k1, k2 \in LabelNames(r1) : f[k1] = f[k2] => k1 = k2
        /\ \A k \in LabelNames(r2) : \E k1 \in LabelNames(r1) : f[k1] = k
        /\ \A k \in LabelNames(r1) : r1[k] = r2[f[k]]

\* C5: two rows get the same Series Key if and only if they carry the same
\* label values, whatever the label names and the field order; in particular
\* two rows with different sets of label values never get the same key.
C5_SameKeyIffSameLabelValues ==
    pc = "keyed" =>
        /\ SameLabelValues(rowA, rowB) => keyA = keyB
        /\ LabelValues(rowA) /= LabelValues(rowB) => keyA /= keyB

---------------------------------------------------------------------------
(* Properties of responseToTimeseries, checked under SpecGroup and SpecPerm *)

\* The places of rows whose key is key, in increasing order.
RECURSIVE PlacesOfKeyFrom(_, _, _)
PlacesOfKeyFrom(rows, key, i) ==
    IF i > Len(rows) THEN <<>>
    ELSE (IF buildKey(rows[i]) = key THEN <<i>> ELSE <<>>)
         \o PlacesOfKeyFrom(rows, key, i + 1)

PlacesOfKey(rows, key) == PlacesOfKeyFrom(rows, key, 1)

\* The samples of the rows whose key is key, in the order of the rows.
SamplesOfKey(rows, key) ==
    LET at == PlacesOfKey(rows, key)
    IN [n \in 1..Len(at) |-> Sample(rows[at[n]])]

RECURSIVE SumLen(_, _)
SumLen(m, S) ==
    IF S = {} THEN 0
    ELSE LET k == CHOOSE x \in S : TRUE
         IN Len(m[k].Samples) + SumLen(m, S \ {k})

\* C6: a row sequence and a permutation of it give the same set of Series
\* Keys and, for each key, the same set of label pairs; and in each result
\* the samples of a series are in the order of that key's rows in the
\* sequence given.
C6_PermutationKeepsKeysAndLabels ==
    pc = "grouped" =>
        /\ DOMAIN labelsToSeriesPerm = DOMAIN labelsToSeries
        /\ \A k \in DOMAIN labelsToSeries :
              /\ labelsToSeriesPerm[k].Labels = labelsToSeries[k].Labels
              /\ labelsToSeries[k].Samples = SamplesOfKey(dataPoints, k)
              /\ labelsToSeriesPerm[k].Samples =
                     SamplesOfKey(Permute(dataPoints, perm), k)

C8_OneSeriesPerKey ==
    pc = "grouped" =>
        /\ DOMAIN labelsToSeries =
               {buildKey(dataPoints[i]) : i \in 1..Len(dataPoints)}
        /\ Len(series) = Cardinality(DOMAIN labelsToSeries)
        /\ \A k \in DOMAIN labelsToSeries :
              /\ Cardinality({n \in 1..Len(series) :
                     series[n] = labelsToSeries[k]}) = 1
              /\ labelsToSeries[k].Samples = SamplesOfKey(dataPoints, k)
              /\ labelsToSeries[k].Labels =
                     labelPairs(dataPoints[PlacesOfKey(dataPoints, k)[1]])
        /\ SumLen(labelsToSeries, DOMAIN labelsToSeries) = Len(dataPoints)
        /\ dataPoints = <<>> => series = <<>>

C8_Witness ==
    /\ pc = "grouped"
    /\ Len(dataPoints) = MaxRows
    /\ Len(series) = 1
    /\ Len(series[1].Samples) = MaxRows
    /\ series[1].Samples[1] /= series[1].Samples[2]
    /\ series[1].Labels /= {}

\* The millisecond timestamp of a time, computed exactly: the seconds times
\* 1000.
ExactMillis(t) ==
    Num(UnixSec(t).neg,
        IF UnixSec(t).mag = <<>> THEN <<>> ELSE <<0>> \o UnixSec(t).mag)

\* C9: a row whose timestamp does not parse still gives a sample, with the
\* row's value and the millisecond timestamp of the zero time, and every
\* other row is processed as if that timestamp had been valid.
C9_UnparsedTimestampIsZeroTime ==
    pc = "grouped" =>
        \A i \in 1..Len(dataPoints) :
            ParseRFC3339(dataPoints[i]["timestamp"]).err =>
                LET key   == buildKey(dataPoints[i])
                    at    == PlacesOfKey(dataPoints, key)
                    n     == CHOOSE x \in 1..Len(at) : at[x] = i
                    valid == [dataPoints EXCEPT
                                 ![i] = [@ EXCEPT !["timestamp"] = TS_2024_0000]]
                    m     == GroupRows(valid)
                IN /\ key \in DOMAIN labelsToSeries
                   /\ labelsToSeries[key].Samples[n] =
                          [Timestamp |-> ExactMillis(ZeroTime),
                           Value |-> dataPoints[i]["value"]]
                   /\ DOMAIN m = DOMAIN labelsToSeries
                   /\ \A k \in DOMAIN m :
                         /\ m[k].Labels = labelsToSeries[k].Labels
                         /\ Len(m[k].Samples) = Len(labelsToSeries[k].Samples)
                         /\ \A x \in 1..Len(m[k].Samples) :
                               (k /= key \/ x /= n) =>
                                   m[k].Samples[x] = labelsToSeries[k].Samples[x]

===========================================================================
